---- MODULE Spec2Model ----
(***************************************************************************)
(* A model of src/minesweeper.py: the Minesweeper board, the logical       *)
(* Sentence and the knowledge-based player MinesweeperAI.                  *)
(*                                                                         *)
(* A cell is a pair <<i, j>>.  A Sentence is a record [cells, count].      *)
(* The knowledge base is the Python list self.knowledge, a sequence.       *)
(* A Python value that is "a set or None" (known_mines, known_safes) and   *)
(* "a cell or None" (make_safe_move) is modelled as a set holding at most  *)
(* one element: {} is None and {v} is the value v.                         *)
(***************************************************************************)
EXTENDS Integers, Sequences, FiniteSets, TLC

VARIABLES
    height, width,   \* the board's and the player's dimensions
    board,           \* Minesweeper.mines: the cells that hold a mine
    moves_made,      \* MinesweeperAI.moves_made
    mines,           \* MinesweeperAI.mines
    safes,           \* MinesweeperAI.safes
    knowledge,       \* MinesweeperAI.knowledge
    pc,              \* "idle", or the loop a call is in: "marking", "random_loop"
    op,              \* the method called last
    new_mines,       \* add_knowledge's local set new_mines
    new_safes,       \* add_knowledge's local set new_safes
    it_mines,        \* the cells  for new_mine in new_mines  has yet to visit
    it_safes,        \* the cells  for new_safe in new_safes  has yet to visit
    attempt,         \* make_random_move's local attempt
    ret,             \* what the method called last returned
    entry,           \* the arguments and the player's state when the last call
                     \* of add_knowledge, mark_mine or mark_safe was entered
    calls            \* the number of calls made that change the player's state

vars == <<height, width, board, moves_made, mines, safes, knowledge,
          pc, op, new_mines, new_safes, it_mines, it_safes, attempt, ret, entry,
          calls>>

locals == <<new_mines, new_safes, it_mines, it_safes>>

engine == <<moves_made, mines, safes, knowledge>>

\* ------------------------------------------------------------- bounds

\* Boards of up to MaxCells cells are explored (height * width <= MaxCells).
MaxCells == 6

\* At most MaxMines mines are placed on a board.
MaxMines == 2

\* At most MaxCalls calls of add_knowledge are made in one game.
MaxCalls == 3

\* ------------------------------------------------------------ helpers

None == {}

Some(v) == {v}

Range(s) == {s[i] : i \in DOMAIN s}

BoardCells(h, w) == (0 .. h - 1) \X (0 .. w - 1)

\* The cells within one row and column of cell, cell excluded, clipped to
\* an h x w board.
Neighbors(cell, h, w) ==
    {n \in ((cell[1] - 1) .. (cell[1] + 1)) \X ((cell[2] - 1) .. (cell[2] + 1)) :
        /\ n # cell
        /\ 0 <= n[1] /\ n[1] < h
        /\ 0 <= n[2] /\ n[2] < w}

\* Minesweeper.nearby_mines on the board b
nearby_mines(cell, b, h, w) == Cardinality(Neighbors(cell, h, w) \cap b)

\* Python's a & b on unbounded integers (two's complement, floor division)
RECURSIVE BitAnd(_, _)
BitAnd(a, b) ==
    IF a = 0 \/ b = 0 THEN 0
    ELSE IF a = -1 THEN b
    ELSE IF b = -1 THEN a
    ELSE 2 * BitAnd(a \div 2, b \div 2) + (a % 2) * (b % 2)

\* ----------------------------------------------------------- Sentence

Sentence(cells, count) == [cells |-> cells, count |-> count]

\* Mutant: known_mines without the comparison with len(self.cells)
Sentence_known_mines_any_count(s) ==
    IF s.count # 0 THEN Some(s.cells) ELSE None

\* Mutant: known_mines without the comparison  != 0
Sentence_known_mines_zero_too(s) ==
    IF Cardinality(s.cells) = BitAnd(s.count, s.count)
    THEN Some(s.cells)
    ELSE None

\* len(self.cells) == self.count & self.count != 0 parses as the chained
\* comparison  len(cells) == (count & count) != 0.
Sentence_known_mines(s) ==
    IF /\ Cardinality(s.cells) = BitAnd(s.count, s.count)
       /\ BitAnd(s.count, s.count) # 0
    THEN Some(s.cells)
    ELSE None

Sentence_known_safes(s) ==
    IF s.count = 0 THEN Some(s.cells) ELSE None

\* Mutant: mark_mine without  self.count -= 1
Sentence_mark_mine_keeps_count(s, cell) ==
    IF cell \in s.cells
    THEN [cells |-> s.cells \ {cell}, count |-> s.count]
    ELSE s

\* Mutant: mark_mine without the test  if cell in self.cells
Sentence_mark_mine_unguarded(s, cell) ==
    [cells |-> s.cells \ {cell}, count |-> s.count - 1]

Sentence_mark_mine(s, cell) ==
    IF cell \in s.cells
    THEN [cells |-> s.cells \ {cell}, count |-> s.count - 1]
    ELSE s

\* Mutant: mark_safe with mark_mine's  self.count -= 1
Sentence_mark_safe_decrements(s, cell) ==
    IF cell \in s.cells
    THEN [cells |-> s.cells \ {cell}, count |-> s.count - 1]
    ELSE s

Sentence_mark_safe(s, cell) ==
    IF cell \in s.cells
    THEN [cells |-> s.cells \ {cell}, count |-> s.count]
    ELSE s

\* ------------------------------------------------------ MinesweeperAI

\* self.knowledge after MinesweeperAI.mark_mine(cell) / mark_safe(cell)
KnowledgeMarkMine(kb, cell) ==
    [i \in DOMAIN kb |-> Sentence_mark_mine(kb[i], cell)]

KnowledgeMarkSafe(kb, cell) ==
    [i \in DOMAIN kb |-> Sentence_mark_safe(kb[i], cell)]

\* Mutant: the first loop without its second test (fact.cells <= sentence.cells)
RECURSIVE Synthesize_one_way(_, _, _, _)
Synthesize_one_way(kb, s, i, nk) ==
    IF i > Len(kb) THEN nk
    ELSE LET fact == kb[i]
             syn1 == Sentence(fact.cells \ s.cells, fact.count - s.count)
             nk1  == IF /\ s.cells \subseteq fact.cells
                        /\ s.cells # fact.cells
                        /\ syn1 \notin Range(nk)
                        /\ syn1.cells # s.cells
                     THEN Append(nk, syn1) ELSE nk
         IN  Synthesize_one_way(kb, s, i + 1, nk1)

\* Mutant: the first loop without the tests that the two cell sets differ
RECURSIVE Synthesize_equal_too(_, _, _, _)
Synthesize_equal_too(kb, s, i, nk) ==
    IF i > Len(kb) THEN nk
    ELSE LET fact == kb[i]
             syn1 == Sentence(fact.cells \ s.cells, fact.count - s.count)
             nk1  == IF /\ s.cells \subseteq fact.cells
                        /\ syn1 \notin Range(nk)
                        /\ syn1.cells # s.cells
                     THEN Append(nk, syn1) ELSE nk
             syn2 == Sentence(s.cells \ fact.cells, s.count - fact.count)
             nk2  == IF /\ fact.cells \subseteq s.cells
                        /\ syn2 \notin Range(nk1)
                        /\ syn2.cells # s.cells
                     THEN Append(nk1, syn2) ELSE nk1
         IN  Synthesize_equal_too(kb, s, i + 1, nk2)

\* Mutant: the first loop giving a synthesized sentence the larger
\* sentence's count
RECURSIVE Synthesize_keeps_count(_, _, _, _)
Synthesize_keeps_count(kb, s, i, nk) ==
    IF i > Len(kb) THEN nk
    ELSE LET fact == kb[i]
             syn1 == Sentence(fact.cells \ s.cells, fact.count)
             nk1  == IF /\ s.cells \subseteq fact.cells
                        /\ s.cells # fact.cells
                        /\ syn1 \notin Range(nk)
                        /\ syn1.cells # s.cells
                     THEN Append(nk, syn1) ELSE nk
             syn2 == Sentence(s.cells \ fact.cells, s.count)
             nk2  == IF /\ fact.cells \subseteq s.cells
                        /\ s.cells # fact.cells
                        /\ syn2 \notin Range(nk1)
                        /\ syn2.cells # s.cells
                     THEN Append(nk1, syn2) ELSE nk1
         IN  Synthesize_keeps_count(kb, s, i + 1, nk2)

\* The first loop of add_knowledge: the sentences synthesized from the new
\* sentence s and the facts kb[i], kb[i+1], ..., queued after nk.
RECURSIVE Synthesize(_, _, _, _)
Synthesize(kb, s, i, nk) ==
    IF i > Len(kb) THEN nk
    ELSE LET fact == kb[i]
             syn1 == Sentence(fact.cells \ s.cells, fact.count - s.count)
             nk1  == IF /\ s.cells \subseteq fact.cells
                        /\ s.cells # fact.cells
                        /\ syn1 \notin Range(nk)
                        /\ syn1.cells # s.cells
                     THEN Append(nk, syn1) ELSE nk
             syn2 == Sentence(s.cells \ fact.cells, s.count - fact.count)
             nk2  == IF /\ fact.cells \subseteq s.cells
                        /\ s.cells # fact.cells
                        /\ syn2 \notin Range(nk1)
                        /\ syn2.cells # s.cells
                     THEN Append(nk1, syn2) ELSE nk1
         IN  Synthesize(kb, s, i + 1, nk2)

\* Mutant: the sweep looks at the sentence appended last only
SweepMines_last_only(kb) ==
    UNION {km \in Sentence_known_mines(kb[Len(kb)]) : km # {}}

\* Mutant: the mines are swept before the new sentence is appended
SweepMines_before_append(kb) ==
    UNION {km \in UNION {Sentence_known_mines(kb[i]) : i \in 1 .. Len(kb) - 1} : km # {}}

\* The second loop of add_knowledge: what the sweep over kb collects.
SweepMines(kb) ==
    UNION {km \in UNION {Sentence_known_mines(kb[i]) : i \in DOMAIN kb} : km # {}}

\* Mutant: the safe cells are swept before the new sentence is appended
SweepSafes_before_append(kb) ==
    UNION {ks \in UNION {Sentence_known_safes(kb[i]) : i \in 1 .. Len(kb) - 1} : ks # {}}

SweepSafes(kb) ==
    UNION {ks \in UNION {Sentence_known_safes(kb[i]) : i \in DOMAIN kb} : ks # {}}

\* Mutant: the sentences left without cells are pruned before the append
Ingest_pruning(kb, cell, count, h, w) ==
    LET kb1      == KnowledgeMarkSafe(kb, cell)
        sentence == Sentence(Neighbors(cell, h, w), count)
    IN  SelectSeq(kb1, LAMBDA f : f.cells # {})
            \o Synthesize(kb1, sentence, 1, <<>>) \o <<sentence>>

\* self.knowledge once the new sentence and the synthesized ones are appended
Ingest(kb, cell, count, h, w) ==
    LET kb1      == KnowledgeMarkSafe(kb, cell)
        sentence == Sentence(Neighbors(cell, h, w), count)
    IN  kb1 \o Synthesize(kb1, sentence, 1, <<>>) \o <<sentence>>

\* What a call is entered with: its arguments (count is 0 for a call that
\* takes none) and the player's sets and sentences at that moment.
Entry(cell, count) ==
    [cell |-> cell, count |-> count, moves_made |-> moves_made,
     mines |-> mines, safes |-> safes, knowledge |-> knowledge]

\* add_knowledge(cell, count) up to the end of the sweep: the two marking
\* loops that follow are the steps MarkNewMine and MarkNewSafe.
add_knowledge(cell, count) ==
    /\ pc = "idle"
    /\ moves_made' = moves_made \cup {cell}
    /\ safes' = safes \cup {cell}
    /\ knowledge' = Ingest(knowledge, cell, count, height, width)
    /\ new_mines' = SweepMines(knowledge')
    /\ new_safes' = SweepSafes(knowledge')
    /\ it_mines' = new_mines'
    /\ it_safes' = new_safes'
    /\ pc' = "marking"
    /\ op' = "add_knowledge"
    /\ ret' = None
    /\ entry' = Entry(cell, count)
    /\ calls' = calls + 1
    /\ UNCHANGED <<height, width, board, mines, attempt>>

\* one iteration of  for new_mine in new_mines: self.mark_mine(new_mine)
MarkNewMine ==
    /\ pc = "marking"
    /\ \E c \in it_mines :
        /\ mines' = mines \cup {c}
        /\ knowledge' = KnowledgeMarkMine(knowledge, c)
        /\ it_mines' = it_mines \ {c}
    /\ UNCHANGED <<height, width, board, moves_made, safes, pc, op, new_mines,
                   new_safes, it_safes, attempt, ret, entry, calls>>

\* one iteration of  for new_safe in new_safes: self.mark_safe(new_safe)
MarkNewSafe ==
    /\ pc = "marking"
    /\ it_mines = {}
    /\ \E c \in it_safes :
        /\ safes' = safes \cup {c}
        /\ knowledge' = KnowledgeMarkSafe(knowledge, c)
        /\ it_safes' = it_safes \ {c}
    /\ UNCHANGED <<height, width, board, moves_made, mines, pc, op, new_mines,
                   new_safes, it_mines, attempt, ret, entry, calls>>

\* add_knowledge returns
AddKnowledgeReturn ==
    /\ pc = "marking"
    /\ it_mines = {}
    /\ it_safes = {}
    /\ pc' = "idle"
    /\ UNCHANGED <<height, width, board, engine, op, locals, attempt, ret,
                   entry, calls>>

\* Mutant: make_safe_move without the test  cell not in self.moves_made
make_safe_move_any_safe ==
    /\ pc = "idle"
    /\ op' = "make_safe_move"
    /\ IF safes = {}
       THEN ret' = None
       ELSE \E cell \in safes : ret' = Some(cell)
    /\ UNCHANGED <<height, width, board, engine, pc, locals, attempt, entry, calls>>

\* make_safe_move: the first cell of self.safes, in the set's iteration
\* order, that is not in self.moves_made; None when the loop finds none.
make_safe_move ==
    /\ pc = "idle"
    /\ op' = "make_safe_move"
    /\ IF safes \subseteq moves_made
       THEN ret' = None
       ELSE \E cell \in safes \ moves_made : ret' = Some(cell)
    /\ UNCHANGED <<height, width, board, engine, pc, locals, attempt, entry, calls>>

\* make_random_move is called: control enters  while True
make_random_move ==
    /\ pc = "idle"
    /\ pc' = "random_loop"
    /\ op' = "make_random_move"
    /\ ret' = None
    /\ UNCHANGED <<height, width, board, engine, locals, attempt, entry, calls>>

\* Mutant: the loop of make_random_move without  attempt not in self.mines
RandomDraw_ignores_mines ==
    /\ pc = "random_loop"
    /\ \E i \in 0 .. height - 1, j \in 0 .. width - 1 :
        /\ attempt' = <<i, j>>
        /\ IF <<i, j>> \notin moves_made
           THEN pc' = "idle" /\ ret' = Some(<<i, j>>)
           ELSE UNCHANGED <<pc, ret>>
    /\ UNCHANGED <<height, width, board, engine, op, locals, entry, calls>>

\* one iteration of the loop of make_random_move
RandomDraw ==
    /\ pc = "random_loop"
    /\ \E i \in 0 .. height - 1, j \in 0 .. width - 1 :
        /\ attempt' = <<i, j>>
        /\ IF <<i, j>> \notin mines /\ <<i, j>> \notin moves_made
           THEN pc' = "idle" /\ ret' = Some(<<i, j>>)
           ELSE UNCHANGED <<pc, ret>>
    /\ UNCHANGED <<height, width, board, engine, op, locals, entry, calls>>

\* --------------------------------------------------------- the game

\* Minesweeper.__init__ and MinesweeperAI.__init__ for a board of h x w cells
\* holding the mines b
Construct(h, w, b) ==
    /\ height = h
    /\ width = w
    /\ board = b
    /\ moves_made = {}
    /\ mines = {}
    /\ safes = {}
    /\ knowledge = <<>>
    /\ pc = "idle"
    /\ op = "init"
    /\ new_mines = {}
    /\ new_safes = {}
    /\ it_mines = {}
    /\ it_safes = {}
    /\ attempt = <<0, 0>>
    /\ ret = None
    /\ entry = [cell |-> <<0, 0>>, count |-> 0, moves_made |-> {}, mines |-> {},
                safes |-> {}, knowledge |-> <<>>]
    /\ calls = 0

BoardSizes == {hw \in (1 .. MaxCells) \X (1 .. MaxCells) : hw[1] * hw[2] <= MaxCells}

Init ==
    \E hw \in BoardSizes :
        \E b \in SUBSET BoardCells(hw[1], hw[2]) :
            /\ Cardinality(b) <= MaxMines
            /\ Construct(hw[1], hw[2], b)

\* A cell that is not a mine is revealed and the board's count for it is
\* handed to the player.
Probe ==
    /\ calls < MaxCalls
    /\ \E cell \in BoardCells(height, width) \ board :
        add_knowledge(cell, nearby_mines(cell, board, height, width))

Next ==
    \/ Probe
    \/ MarkNewMine
    \/ MarkNewSafe
    \/ AddKnowledgeReturn
    \/ make_safe_move
    \/ make_random_move
    \/ RandomDraw

Spec == Init /\ [][Next]_vars

\* A call that is running keeps running: the loops of add_knowledge and of
\* make_random_move take their next iteration.  Nothing obliges the caller
\* to make another call.
FairSpec ==
    /\ Init
    /\ [][Next]_vars
    /\ WF_vars(MarkNewMine)
    /\ WF_vars(MarkNewSafe)
    /\ WF_vars(AddKnowledgeReturn)
    /\ WF_vars(RandomDraw)

\* ------------------------------------------- the end-to-end scenario

\* A 3 x 3 board whose only mine is (2, 2)
InitE2E == Construct(3, 3, {<<2, 2>>})

\* The game starts with a probe of (0, 0).
FirstProbe ==
    /\ moves_made = {}
    /\ add_knowledge(<<0, 0>>, nearby_mines(<<0, 0>>, board, height, width))

\* Each turn the caller asks make_safe_move for a cell ...
AskSafeMove ==
    /\ moves_made # {}
    /\ op = "add_knowledge"
    /\ make_safe_move

\* ... and feeds the cell it got, with the board's count, to add_knowledge.
ProbeSafeMove ==
    /\ op = "make_safe_move"
    /\ \E cell \in ret :
        add_knowledge(cell, nearby_mines(cell, board, height, width))

NextE2E ==
    \/ FirstProbe
    \/ AskSafeMove
    \/ ProbeSafeMove
    \/ MarkNewMine
    \/ MarkNewSafe
    \/ AddKnowledgeReturn

SpecE2E == InitE2E /\ [][NextE2E]_vars

\* ------------------------------------------- the player called freely

\* Boards of up to MaxApiCells cells are explored.
MaxApiCells == 4

\* At most MaxApiCalls calls of add_knowledge, mark_mine and mark_safe are made.
MaxApiCalls == 2

\* The counts a caller hands to add_knowledge are 0 .. MaxCount.
MaxCount == 2

\* The cells a caller may name: the board and the two cells diagonally
\* outside its first and last corner (each has one neighbour on the board).
ApiCells(h, w) == BoardCells(h, w) \cup {<<-1, -1>>, <<h, w>>}

InitApi ==
    \E hw \in BoardSizes :
        /\ hw[1] * hw[2] <= MaxApiCells
        /\ Construct(hw[1], hw[2], {})

\* add_knowledge called with any cell, on the board or not, and any count
ApiAddKnowledge ==
    /\ calls < MaxApiCalls
    /\ \E cell \in ApiCells(height, width), count \in 0 .. MaxCount :
        add_knowledge(cell, count)

\* MinesweeperAI.mark_mine(cell) called directly
mark_mine(cell) ==
    /\ pc = "idle"
    /\ mines' = mines \cup {cell}
    /\ knowledge' = KnowledgeMarkMine(knowledge, cell)
    /\ op' = "mark_mine"
    /\ ret' = None
    /\ entry' = Entry(cell, 0)
    /\ calls' = calls + 1
    /\ UNCHANGED <<height, width, board, moves_made, safes, pc, locals, attempt>>

\* MinesweeperAI.mark_safe(cell) called directly
mark_safe(cell) ==
    /\ pc = "idle"
    /\ safes' = safes \cup {cell}
    /\ knowledge' = KnowledgeMarkSafe(knowledge, cell)
    /\ op' = "mark_safe"
    /\ ret' = None
    /\ entry' = Entry(cell, 0)
    /\ calls' = calls + 1
    /\ UNCHANGED <<height, width, board, moves_made, mines, pc, locals, attempt>>

ApiMarkMine ==
    /\ calls < MaxApiCalls
    /\ \E cell \in BoardCells(height, width) : mark_mine(cell)

ApiMarkSafe ==
    /\ calls < MaxApiCalls
    /\ \E cell \in BoardCells(height, width) : mark_safe(cell)

NextApi ==
    \/ ApiAddKnowledge
    \/ ApiMarkMine
    \/ ApiMarkSafe
    \/ MarkNewMine
    \/ MarkNewSafe
    \/ AddKnowledgeReturn

SpecApi == InitApi /\ [][NextApi]_vars

\* ------------------------------------------- a sentence on its own
\* One Sentence object, built with any cells and any count, and its methods
\* called in any order. The sentence is knowledge[1]; ret holds what
\* known_mines / known_safes returned: None, or Some(set of cells).

\* The sentence's cells are drawn from a row of MaxSentenceCells cells.
MaxSentenceCells == 3

\* Its count is drawn from -MaxOver .. MaxSentenceCells + MaxOver.
MaxOver == 2

\* Sentence(cells, count)
InitSentence ==
    \E cells \in SUBSET BoardCells(1, MaxSentenceCells) :
        \E count \in (0 - MaxOver) .. (MaxSentenceCells + MaxOver) :
            /\ height = 1
            /\ width = MaxSentenceCells
            /\ board = {}
            /\ moves_made = {}
            /\ mines = {}
            /\ safes = {}
            /\ knowledge = <<Sentence(cells, count)>>
            /\ pc = "idle"
            /\ op = "init"
            /\ new_mines = {}
            /\ new_safes = {}
            /\ it_mines = {}
            /\ it_safes = {}
            /\ attempt = <<0, 0>>
            /\ ret = None
            /\ entry = Entry(<<0, 0>>, count)
            /\ calls = 0

\* Sentence.known_mines()
known_mines ==
    /\ ret' = Sentence_known_mines(knowledge[1])
    /\ op' = "known_mines"
    /\ UNCHANGED <<height, width, board, engine, pc, locals, attempt, entry, calls>>

\* Sentence.known_safes()
known_safes ==
    /\ ret' = Sentence_known_safes(knowledge[1])
    /\ op' = "known_safes"
    /\ UNCHANGED <<height, width, board, engine, pc, locals, attempt, entry, calls>>

\* Sentence.mark_mine(cell)
SentenceMarkMine ==
    \E cell \in BoardCells(height, width) :
        /\ knowledge' = <<Sentence_mark_mine(knowledge[1], cell)>>
        /\ op' = "mark_mine"
        /\ ret' = None
        /\ UNCHANGED <<height, width, board, moves_made, mines, safes, pc,
                       locals, attempt, entry, calls>>

\* Sentence.mark_safe(cell)
SentenceMarkSafe ==
    \E cell \in BoardCells(height, width) :
        /\ knowledge' = <<Sentence_mark_safe(knowledge[1], cell)>>
        /\ op' = "mark_safe"
        /\ ret' = None
        /\ UNCHANGED <<height, width, board, moves_made, mines, safes, pc,
                       locals, attempt, entry, calls>>

NextSentence ==
    \/ known_mines
    \/ known_safes
    \/ SentenceMarkMine
    \/ SentenceMarkSafe

SpecSentence == InitSentence /\ [][NextSentence]_vars

\* ------------------------------------------------------------- claims

KnowledgeSentences == Range(knowledge)

\* C1: in a game played on non-mine cells with the board's counts, every
\* cell of the player's mines is a real mine, no cell of its safes is a real
\* mine, and a cell returned by make_safe_move is not a mine.
C1_Soundness ==
    /\ mines \subseteq board
    /\ safes \cap board = {}
    /\ (op = "make_safe_move" => ret \cap board = {})

\* C1's case: the player has deduced a mine and make_safe_move returned a cell.
C1_Witness ==
    /\ mines # {}
    /\ op = "make_safe_move"
    /\ ret # None

\* C2: every sentence of the knowledge base has 0 <= count <= |cells|, in
\* every state of a game, the states between two marks of add_knowledge's
\* loops and the synthesized sentences included.
C2_CountInvariant ==
    \A s \in KnowledgeSentences :
        0 <= s.count /\ s.count <= Cardinality(s.cells)

\* C2's case: a marking loop is half-way (a mine was marked, cells remain to
\* be marked) and the knowledge base holds a synthesized sentence.
C2_Witness ==
    /\ pc = "marking"
    /\ it_mines = {}
    /\ new_mines # {}
    /\ it_safes # {}
    /\ it_safes # new_safes
    /\ Len(knowledge) > calls

\* C3: the player's mines and safes have no cell in common.
C3_Disjointness == mines \cap safes = {}

\* C3's case: add_knowledge has returned with both a mine and a safe cell
\* deduced by the sweep.
C3_Witness ==
    /\ pc = "idle"
    /\ new_mines # {}
    /\ new_safes # {}
    /\ mines # {}
    /\ safes # {}

\* C4: when add_knowledge has returned, no sentence of the knowledge base
\* holds a cell of the player's mines or safes.
C4_NoKnownCellInSentence ==
    (pc = "idle" /\ op = "add_knowledge") =>
        \A s \in KnowledgeSentences : s.cells \cap (mines \cup safes) = {}

C8_RandomMoveExclusion ==
    (op = "make_random_move" /\ pc = "idle") =>
        /\ ret # None
        /\ ret \subseteq BoardCells(height, width)
        /\ ret \cap mines = {}
        /\ ret \cap moves_made = {}

\* C8's case: make_random_move has returned a cell while the player knew a
\* mine and had made a move.
C8_Witness ==
    /\ op = "make_random_move"
    /\ pc = "idle"
    /\ ret # None
    /\ mines # {}
    /\ moves_made # {}

\* C9: make_safe_move returns a cell of safes that is not in moves_made when
\* there is one, returns None exactly when safes is a subset of moves_made,
\* and changes none of moves_made, mines, safes, knowledge.
C9_SafeMoveResult ==
    [][(pc = "idle" /\ pc' = "idle" /\ op' = "make_safe_move") =>
        /\ ret' \subseteq safes \ moves_made
        /\ (ret' = None <=> safes \subseteq moves_made)
        /\ UNCHANGED engine]_vars

\* C9's case: make_safe_move has returned a cell while another safe cell was
\* already played.
C9_Witness ==
    /\ op = "make_safe_move"
    /\ ret # None
    /\ Cardinality(moves_made) >= 2
    /\ Cardinality(safes \ moves_made) >= 2

\* C6: in the end-to-end game every execution reaches mines = {(2, 2)}
\* before the player runs out of safe moves: when make_safe_move reports
\* that there is no move, the player has marked (2, 2), and only it, a mine.
C6_EventualDeduction ==
    (op = "make_safe_move" /\ ret = None) => mines = {<<2, 2>>}

\* Every cell of the board is in mines or in moves_made.
Exhausted == BoardCells(height, width) \subseteq (mines \cup moves_made)

\* C7: make_random_move called when every cell is in mines or moves_made
\* terminates, returning None.
C7_RandomMoveTerminates ==
    [](pc = "random_loop" /\ Exhausted =>
        <>(pc = "idle" /\ op = "make_random_move" /\ ret = None))

\* C10: add_knowledge called with a cell that is not on the board leaves
\* moves_made, mines, safes and knowledge unchanged.
C10_OutOfBoundsRejected ==
    [][\A cell \in ApiCells(height, width) \ BoardCells(height, width) :
         \A count \in 0 .. MaxCount :
            add_knowledge(cell, count) => UNCHANGED engine]_vars

\* add_knowledge has returned from a call that named a cell of the board.
Returned ==
    /\ pc = "idle"
    /\ op = "add_knowledge"
    /\ entry.cell \in BoardCells(height, width)

\* The neighbours of the cell the last call named
EntryNeighbors == Neighbors(entry.cell, height, width)

\* C11: when add_knowledge(cell, 0) has returned, for a cell of the board and
\* whatever the player's state was, every neighbour of cell is in safes.
C11_ZeroCount ==
    (Returned /\ entry.count = 0) => EntryNeighbors \subseteq safes

\* C11's case: add_knowledge(cell, 0) has returned, the knowledge base held
\* sentences before it and no neighbour of cell was in safes.
C11_Witness ==
    /\ Returned
    /\ entry.count = 0
    /\ entry.knowledge # <<>>
    /\ Cardinality(EntryNeighbors) >= 2
    /\ EntryNeighbors \cap entry.safes = {}

\* Every call made so far named a cell of the board.
OnBoard == moves_made \subseteq BoardCells(height, width)

\* add_knowledge(cell, n) has returned, n >= 1 being the number of the
\* neighbours of cell, none of which was in mines or safes when it was called.
FullCountCall ==
    /\ Returned
    /\ OnBoard
    /\ entry.count = Cardinality(EntryNeighbors)
    /\ entry.count >= 1
    /\ EntryNeighbors \cap (entry.mines \cup entry.safes) = {}

EntryFacts == Range(KnowledgeMarkSafe(entry.knowledge, entry.cell))

\* No sentence the call found has a count above the number of its cells, and
\* none with count 0 holds a neighbour of cell.
EntryConsistent ==
    \A f \in EntryFacts :
        /\ f.count <= Cardinality(f.cells)
        /\ (f.count = 0 => f.cells \cap EntryNeighbors = {})

EntrySentence == Sentence(EntryNeighbors, entry.count)

\* One of the cell sets of a and b is strictly contained in the other.
StrictlyNested(a, b) ==
    /\ a.cells # b.cells
    /\ (a.cells \subseteq b.cells \/ b.cells \subseteq a.cells)

\* The cells of the larger of two nested sets that the smaller lacks
Difference(a, b) == (a.cells \ b.cells) \cup (b.cells \ a.cells)

C14_MarkIdempotent ==
    /\ op = "mark_mine" =>
        /\ mines \cup {entry.cell} = mines
        /\ KnowledgeMarkMine(knowledge, entry.cell) = knowledge
    /\ op = "mark_safe" =>
        /\ safes \cup {entry.cell} = safes
        /\ KnowledgeMarkSafe(knowledge, entry.cell) = knowledge

\* C14's case: mark_mine(c) was called for a cell c that a sentence held, and
\* changed that sentence.
C14_Witness ==
    /\ op = "mark_mine"
    /\ \E i \in DOMAIN entry.knowledge :
        /\ entry.cell \in entry.knowledge[i].cells
        /\ knowledge[i] # entry.knowledge[i]

\* C15: no step of any operation removes a cell from moves_made, mines or
\* safes, or makes the knowledge base shorter.
C15_AppendOnly ==
    [][/\ moves_made \subseteq moves_made'
       /\ mines \subseteq mines'
       /\ safes \subseteq safes'
       /\ Len(knowledge') >= Len(knowledge)]_vars

\* C15's case: add_knowledge has run on a knowledge base that held
\* two sentences or more, both sets of known cells being non-empty.
C15_Witness ==
    /\ op = "add_knowledge"
    /\ Len(entry.knowledge) >= 2
    /\ Len(knowledge) > Len(entry.knowledge)
    /\ entry.mines # {}
    /\ entry.safes # {}
    /\ \E i \in DOMAIN entry.knowledge : entry.knowledge[i].cells = {}

\* The sentence of SpecSentence
TheSentence == knowledge[1]

\* C16: known_mines returns the sentence's cells exactly when count equals
\* the number of cells and is not 0, and None otherwise, whatever the cells
\* and the count.
C16_KnownMines ==
    op = "known_mines" =>
        ret = IF /\ TheSentence.count = Cardinality(TheSentence.cells)
                 /\ TheSentence.count # 0
              THEN Some(TheSentence.cells)
              ELSE None

\* C16's case: known_mines was called on a sentence of two cells or more and
\* returned them.
C16_Witness ==
    /\ op = "known_mines"
    /\ Cardinality(TheSentence.cells) >= 2
    /\ ret = Some(TheSentence.cells)

\* C17: known_safes returns the sentence's cells when count is 0 and there
\* are cells, and None when count is not 0 or when count is 0 and there are
\* no cells.
C17_KnownSafes ==
    op = "known_safes" =>
        ret = IF /\ TheSentence.count = 0
                 /\ TheSentence.cells # {}
              THEN Some(TheSentence.cells)
              ELSE None

\* add_knowledge has appended and swept, and has marked nothing yet.
Appended ==
    /\ pc = "marking"
    /\ op = "add_knowledge"
    /\ it_mines = new_mines
    /\ it_safes = new_safes

\* What subset resolution makes of the new sentence and a sentence f whose
\* cell sets are strictly nested: the larger less the smaller.
Resolvent(f) ==
    IF EntryNeighbors \subseteq f.cells
    THEN Sentence(f.cells \ EntryNeighbors, f.count - entry.count)
    ELSE Sentence(EntryNeighbors \ f.cells, entry.count - f.count)

\* The sentences the call queued and appended: those between the ones it
\* found and the new sentence.
Synthesized ==
    {knowledge[i] : i \in (Len(entry.knowledge) + 1) .. (Len(knowledge) - 1)}

\* Every appended synthesized sentence comes from a strictly nested pair.
OnlyStrict ==
    \A syn \in Synthesized :
        \E f \in EntryFacts :
            StrictlyNested(EntrySentence, f) /\ syn = Resolvent(f)

SynthesizedAt == (Len(entry.knowledge) + 1) .. (Len(knowledge) - 1)

\* C19: once add_knowledge has appended, no synthesized sentence it appended
\* equals a sentence it found in the knowledge base, and no two of them are
\* equal.
C19_Deduplication ==
    Appended =>
        /\ \A i \in SynthesizedAt : knowledge[i] \notin EntryFacts
        /\ \A i, j \in SynthesizedAt : knowledge[i] = knowledge[j] => i = j

\* C20: in a game that hands add_knowledge the board's counts of cells
\* without a mine, the count of every sentence is the number of mines of the
\* board among its cells.
C20_SentenceTruth ==
    \A s \in KnowledgeSentences : s.count = Cardinality(s.cells \cap board)

\* C20's case: add_knowledge has returned after synthesizing a sentence and
\* marking a mine, and a sentence still holds a mine.
C20_Witness ==
    /\ Returned
    /\ SynthesizedAt # {}
    /\ mines # entry.mines
    /\ \E s \in KnowledgeSentences : s.count >= 1

====
